---- MODULE Spec2Model ----
(***************************************************************************)
(* Model of api/generate.js: the retry/backoff/timeout wrapper around the  *)
(* upstream chat-completion call, the extraction of the model's content    *)
(* and the repair pipeline that coerces it into a 20-turn dialogue.        *)
(*                                                                         *)
(* A JavaScript string is a sequence of UTF-16 code units; each code unit  *)
(* is written here as a short ASCII name ("wa" for U+308F, "maru" for the  *)
(* full-width period U+3002, "sp" for the space, ...), so that length,     *)
(* slice, includes and lastIndexOf are computed on code units as the       *)
(* program computes them.                                                  *)
(*                                                                         *)
(* Specifications: SpecEnforce (sanitizeAndCoerce20 on drawn inputs),      *)
(* SpecTone (normTone on drawn inputs), Spec (one invocation of the        *)
(* handler), SpecLive (Spec with every await settling), SpecPair (two      *)
(* invocations in flight at once).                                         *)
(***************************************************************************)
EXTENDS Integers, Sequences, FiniteSets, TLC

\* ------------------------------------------------------------------------
\* Bounds of the model
\* ------------------------------------------------------------------------
MaxFill == 71
MaxListLen == 21
MaxWordFill == 2
LongWordLen == 71

\* ------------------------------------------------------------------------
\* Strings
\* ------------------------------------------------------------------------
Rep(c, n) == [i \in 1..n |-> c]

\* String.prototype.slice(0, n) for n >= 0
Slice0(s, n) == SubSeq(s, 1, IF n < Len(s) THEN n ELSE Len(s))

\* String.prototype.includes
Includes(s, t) ==
  \E p \in 0..(Len(s) - Len(t)) : SubSeq(s, p + 1, p + Len(t)) = t

\* String.prototype.lastIndexOf for a one-unit needle, 0-based, -1 when absent
LastIndexOf(s, c) ==
  LET P == {p \in 1..Len(s) : s[p] = c}
  IN IF P = {} THEN -1 ELSE (CHOOSE p \in P : \A q \in P : q <= p) - 1

Max4(a, b, c, d) ==
  LET S == {a, b, c, d} IN CHOOSE m \in S : \A x \in S : x <= m

\* The code units \s matches that the inputs use: space, line feed,
\* ideographic space U+3000
WhiteSpace == {"sp", "nl", "fsp"}

RECURSIVE TrimStart(_)
TrimStart(s) ==
  IF s # <<>> /\ Head(s) \in WhiteSpace THEN TrimStart(Tail(s)) ELSE s

RECURSIVE TrimEnd(_)
TrimEnd(s) ==
  IF s # <<>> /\ s[Len(s)] \in WhiteSpace
  THEN TrimEnd(SubSeq(s, 1, Len(s) - 1)) ELSE s

\* String.prototype.trim
Trim(s) == TrimEnd(TrimStart(s))

\* replace(/\s+/g, " "): every maximal run of white space becomes one space
RECURSIVE CollapseWs(_)
CollapseWs(s) ==
  IF s = <<>> THEN <<>>
  ELSE IF Head(s) \in WhiteSpace
       THEN <<"sp">> \o CollapseWs(TrimStart(s))
       ELSE <<Head(s)>> \o CollapseWs(Tail(s))

\* Decimal digits of a natural number, as String(n) writes them
Digit(d) == CASE d = 0 -> "0" [] d = 1 -> "1" [] d = 2 -> "2" [] d = 3 -> "3"
              [] d = 4 -> "4" [] d = 5 -> "5" [] d = 6 -> "6" [] d = 7 -> "7"
              [] d = 8 -> "8" [] d = 9 -> "9"

RECURSIVE NumToString(_)
NumToString(n) ==
  IF n < 10 THEN <<Digit(n)>> ELSE NumToString(n \div 10) \o <<Digit(n % 10)>>

\* ------------------------------------------------------------------------
\* JavaScript values that reach the repair pipeline
\* ------------------------------------------------------------------------
Undefined == [kind |-> "undefined", s |-> <<>>, n |-> 0]
JsNull == [kind |-> "null", s |-> <<>>, n |-> 0]
Str(s) == [kind |-> "string", s |-> s, n |-> 0]
Num(n) == [kind |-> "number", s |-> <<>>, n |-> n]

\* String(v ?? "")
StringOrEmpty(v) ==
  CASE v.kind = "string" -> v.s
    [] v.kind = "number" -> NumToString(v.n)
    [] OTHER -> <<>>

\* An element of the candidates list: an object with speaker and text, or null
Obj(speaker, text) == [kind |-> "object", speaker |-> speaker, text |-> text]
NullItem == [kind |-> "null", speaker |-> "", text |-> Undefined]
EmptyObj == Obj("", Undefined)

\* The candidates value: null, something that is no array, or an array
NullList == [kind |-> "null", elems |-> <<>>]
NotArray == [kind |-> "object", elems |-> <<>>]
Arr(elems) == [kind |-> "array", elems |-> elems]

\* ------------------------------------------------------------------------
\* The repair pipeline
\* ------------------------------------------------------------------------
EMPATHY_TOKENS ==
  { <<"wa", "ka", "ru">>, <<"so", "re", "na">>, <<"ta", "shi", "ka", "ni">>,
    <<"kaku", "ka", "ni">>, <<"so", "u", "da", "ne">>,
    <<"na", "ru", "ho", "do">>, <<"kyo", "kan", "su", "ru">>,
    <<"ho", "nn", "to">>, <<"hon", "tou">>, <<"ma", "a", "ne">>,
    <<"dou", "kan">>, <<"so", "u", "na", "nn", "da", "yo">> }

EmpathyPrefix == <<"wa", "ka", "ru", "ten">>
Filler == <<"ellipsis", "da", "yo", "ne", "maru">>
TopicSuffix == <<"no", "hanashi", "da", "ke", "do", "sa">>
ClosingLine == <<"so", "u", "da", "ne", "maru">>
TerminalMarks == {"maru", "fbang", "fq", "!", "?"}

MinLen == 10
MaxLen == 70
TurnCount == 20

ensureEmpathy(text) ==
  IF \E t \in EMPATHY_TOKENS : Includes(text, t) THEN text
  ELSE EmpathyPrefix \o text

\* line 91: cut at the last full-width mark when it sits at index 10 or later
CutAtPunc(cut, lastPunc) ==
  IF lastPunc >= 10 THEN Slice0(cut, lastPunc + 1) ELSE cut

\* lines 84-91, for cut = t.slice(0, 70)
CutLong(cut) ==
  CutAtPunc(cut, Max4(LastIndexOf(cut, "maru"), LastIndexOf(cut, "ten"),
                      LastIndexOf(cut, "fbang"), LastIndexOf(cut, "fq")))

\* lines 83-92
ClampUpper(t) == IF Len(t) > MaxLen THEN CutLong(Slice0(t, MaxLen)) ELSE t

\* line 99 (and line 109)
HardCut(t) == IF Len(t) > MaxLen THEN Slice0(t, MaxLen) ELSE t

\* The lower bound's second stage left out: the text extended by the filler
\* is returned as it is
PadWithoutTopic(t, word) == t

\* lines 97-100, for t already extended by the filler
PadWithTopic(t, word) ==
  IF Len(t) < MinLen THEN HardCut(t \o word \o TopicSuffix) ELSE t

\* lines 94-101
PadLower(t, word) ==
  IF Len(t) < MinLen THEN PadWithTopic(Slice0(t \o Filler, MaxLen), word) ELSE t

clampLength(text, word) == PadLower(ClampUpper(CollapseWs(Trim(text))), word)

\* The closing mark added unless the text ends in a full-width mark: the
\* ASCII marks ! and ? not counted as terminal
CloseSentenceFullWidth(t) ==
  IF ~(t # <<>> /\ t[Len(t)] \in {"maru", "fbang", "fq"}) /\ Len(t) <= 68
  THEN t \o <<"maru">> ELSE t

\* line 111
CloseSentence(t) ==
  IF ~(t # <<>> /\ t[Len(t)] \in TerminalMarks) /\ Len(t) <= 68
  THEN t \o <<"maru">> ELSE t

enforceConstraints(text, word) ==
  CloseSentence(HardCut(clampLength(ensureEmpathy(text), word)))

\* i is the 0-based index of Array.from's callback
SpeakerOf(i) == IF i % 2 = 0 THEN "A" ELSE "B"

\* (Array.isArray(items) ? items : [])[i] || {}
ElementAt(a, i) ==
  IF i + 1 <= Len(a) /\ a[i + 1].kind = "object" THEN a[i + 1] ELSE EmptyObj

ItemAt(items, i) ==
  ElementAt(IF items.kind = "array" THEN items.elems ELSE <<>>, i)

\* lines 117-125
BuildBase(items, word) ==
  [k \in 1..TurnCount |->
     Obj(SpeakerOf(k - 1),
         Str(enforceConstraints(StringOrEmpty(ItemAt(items, k - 1).text), word)))]

\* line 128
ForceClosing(base) == [base EXCEPT ![TurnCount].text = Str(ClosingLine)]

\* The filter's predicate on the turn at 0-based index i
KeepTurn(e, i) ==
  IF i = TurnCount - 1 THEN e.text.s = ClosingLine
  ELSE e.text.s # <<>> /\ Len(e.text.s) >= MinLen /\ Len(e.text.s) <= MaxLen

\* lines 131-133: base.filter(...), from 1-based position k on
RECURSIVE FilterFrom(_, _)
FilterFrom(base, k) ==
  IF k > Len(base) THEN <<>>
  ELSE (IF KeepTurn(base[k], k - 1) THEN <<base[k]>> ELSE <<>>)
       \o FilterFrom(base, k + 1)

\* line 135
AcceptTwenty(cleaned) ==
  IF Len(cleaned) = TurnCount THEN Arr(cleaned) ELSE NullList

\* The coercion without the repair, the forced closing line and the length
\* filter: the first 20 elements, relabelled, trimmed, the empty ones dropped
LegacyTurns(a) ==
  [k \in 1..(IF Len(a) < TurnCount THEN Len(a) ELSE TurnCount) |->
     Obj(SpeakerOf(k - 1), Str(CollapseWs(Trim(StringOrEmpty(a[k].text)))))]

sanitizeAndCoerce20Legacy(items, word) ==
  AcceptTwenty(SelectSeq(LegacyTurns(IF items.kind = "array" THEN items.elems ELSE <<>>),
                         LAMBDA e : e.text.s # <<>>))

sanitizeAndCoerce20(items, word) ==
  AcceptTwenty(FilterFrom(ForceClosing(BuildBase(items, word)), 1))

\* ------------------------------------------------------------------------
\* The tone label
\* ------------------------------------------------------------------------
UpperCase == <<"A", "B", "C", "D", "E", "F", "G", "H", "I", "J", "K", "L", "M",
               "N", "O", "P", "Q", "R", "S", "T", "U", "V", "W", "X", "Y", "Z">>
LowerCase == <<"a", "b", "c", "d", "e", "f", "g", "h", "i", "j", "k", "l", "m",
               "n", "o", "p", "q", "r", "s", "t", "u", "v", "w", "x", "y", "z">>

LowerOf(c) ==
  IF \E k \in 1..Len(UpperCase) : UpperCase[k] = c
  THEN LowerCase[CHOOSE k \in 1..Len(UpperCase) : UpperCase[k] = c]
  ELSE c

toLowerCase(s) == [k \in 1..Len(s) |-> LowerOf(s[k])]

\* String(toneRaw || ""): a falsy value (undefined, null, 0, "") gives ""
ToneString(v) ==
  IF v.kind = "string" THEN v.s
  ELSE IF v.kind = "number" /\ v.n # 0 THEN NumToString(v.n)
  ELSE <<>>

\* The keywords of lines 12-15: kara, tetsu, shin ya and yu ru stand for the
\* code units of the four Japanese keywords
HarshWords == { <<"kara">>, <<"h", "a", "r", "d">>, <<"h", "a", "r", "s", "h">> }
PhiloWords == { <<"tetsu">>, <<"p", "h", "i", "l", "o">> }
LateWords == { <<"shin", "ya">>, <<"l", "a", "t", "e">> }
MildWords == { <<"yu", "ru">>, <<"m", "i", "l", "d">> }

IncludesAny(t, words) == \E w \in words : Includes(t, w)

\* lines 12-16, for the lower-cased string t
ToneOf(t) ==
  IF IncludesAny(t, HarshWords) THEN "harsh"
  ELSE IF IncludesAny(t, PhiloWords) THEN "philosophical"
  ELSE IF IncludesAny(t, LateWords) THEN "late-night"
  ELSE IF IncludesAny(t, MildWords) THEN "mild"
  ELSE "normal"

\* The tone label without the lower-casing of line 11
normToneCaseSensitive(toneRaw) == ToneOf(ToneString(toneRaw))

normTone(toneRaw) == ToneOf(toLowerCase(ToneString(toneRaw)))

\* ------------------------------------------------------------------------
\* Retry policy
\* ------------------------------------------------------------------------
Times == 3
BackoffBase == 400

Digits == {"0", "1", "2", "3", "4", "5", "6", "7", "8", "9"}
Letters == {"a", "b", "c", "d", "e", "f", "g", "h", "i", "j", "k", "l", "m",
            "n", "o", "p", "q", "r", "s", "t", "u", "v", "w", "x", "y", "z",
            "E", "J", "N", "O", "S", "T", "U"}
\* \w of the regular expression
WordChars == Digits \cup Letters \cup {"_"}

\* \b before 1-based position p of s (between s[p-1] and s[p])
WordBoundary(s, p) ==
  LET before == p > 1 /\ s[p - 1] \in WordChars
      after == p <= Len(s) /\ s[p] \in WordChars
  IN before # after

\* /(?:\b429\b|5\d\d)/.test(msg)
MatchesRetryPattern(msg) ==
  \E p \in 1..(Len(msg) - 2) :
    \/ /\ SubSeq(msg, p, p + 2) = <<"4", "2", "9">>
       /\ WordBoundary(msg, p)
       /\ WordBoundary(msg, p + 3)
    \/ /\ msg[p] = "5"
       /\ msg[p + 1] \in Digits
       /\ msg[p + 2] \in Digits

\* status 0 stands for an error that carries no status (undefined)
isRetryableStatus(status, msg) ==
  IF status = 0 THEN FALSE
  ELSE IF status = 429 THEN TRUE
  ELSE IF status >= 500 /\ status < 600 THEN TRUE
  ELSE MatchesRetryPattern(msg)

RECURSIVE Pow2(_)
Pow2(n) == IF n = 0 THEN 1 ELSE 2 * Pow2(n - 1)

\* The wait with the exponent written as a product: 400 * 2 * i
BackoffWaitLinear(n) == BackoffBase * 2 * n

\* const wait = 400 * 2 ** i
BackoffWait(n) == BackoffBase * Pow2(n)

\* ------------------------------------------------------------------------
\* Errors
\* ------------------------------------------------------------------------
Err(name, status, message) ==
  [name |-> name, status |-> status, message |-> message]
NoErr == Err("", 0, <<>>)

\* The rejection of a fetch, text() or json() whose signal has aborted
AbortError ==
  Err("AbortError", 0,
      <<"T", "h", "i", "s", "sp", "o", "p", "e", "r", "a", "t", "i", "o", "n",
        "sp", "w", "a", "s", "sp", "a", "b", "o", "r", "t", "e", "d">>)
\* The rejections of json() on a body that is no JSON text: V8 words the
\* message, and may quote the position of the offending token
JsonErrors ==
  { Err("SyntaxError", 0,
        <<"U", "n", "e", "x", "p", "e", "c", "t", "e", "d", "sp", "e", "n", "d",
          "sp", "o", "f", "sp", "J", "S", "O", "N", "sp", "i", "n", "p", "u", "t">>),
    Err("SyntaxError", 0,
        <<"U", "n", "e", "x", "p", "e", "c", "t", "e", "d", "sp", "t", "o", "k",
          "e", "n", "sp", "i", "n", "sp", "J", "S", "O", "N", "sp", "a", "t", "sp",
          "p", "o", "s", "i", "t", "i", "o", "n", "sp", "5", "1", "2">>) }
\* The rejection of a fetch that could not reach the upstream
FetchFailed ==
  Err("TypeError", 0, <<"f", "e", "t", "c", "h", "sp", "f", "a", "i", "l", "e", "d">>)

UpstreamPrefix == <<"U", "p", "s", "t", "r", "e", "a", "m", "sp">>

\* new Error("Upstream " + resp.status + ": " + (msg || resp.statusText)), err.status
UpstreamError(status, msg, statusText) ==
  Err("Error", status,
      UpstreamPrefix \o NumToString(status) \o <<":", "sp">>
        \o (IF msg # <<>> THEN msg ELSE statusText))

\* t?.slice(0, 500)
safeTextSlice(t) == Slice0(t, 500)

\* ------------------------------------------------------------------------
\* Extraction of the candidates from the upstream payload
\* ------------------------------------------------------------------------
\* A string content is a sequence of chunks: a code fence with the json tag,
\* a bare code fence, or a stretch of text that JSON.parse accepts (with the
\* value it parses to) or rejects.
FenceJson == [tok |-> "fence_json", valid |-> FALSE, shape |-> "", list |-> NullList]
Fence == [tok |-> "fence", valid |-> FALSE, shape |-> "", list |-> NullList]
Garbage == [tok |-> "text", valid |-> FALSE, shape |-> "", list |-> NullList]
\* text that parses to an array
JsonArray(list) == [tok |-> "text", valid |-> TRUE, shape |-> "array", list |-> list]
\* text that parses to an object whose data field is the given list value (an array or not)
JsonObject(list) == [tok |-> "text", valid |-> TRUE, shape |-> "object", list |-> list]
\* text that parses to a number
JsonNumber == [tok |-> "text", valid |-> TRUE, shape |-> "number", list |-> NullList]
\* text that parses to null
JsonNullText == [tok |-> "text", valid |-> TRUE, shape |-> "null", list |-> NullList]

\* The content field of the envelope: absent, null, a string, or a list of
\* one block {text: string}
NoContent == [kind |-> "undefined", chunks |-> <<>>]
NullContent == [kind |-> "null", chunks |-> <<>>]
StringContent(chunks) == [kind |-> "string", chunks |-> chunks]
BlockContent(chunks) == [kind |-> "blocks", chunks |-> chunks]

\* content.replace(/(3 backticks)json|(3 backticks)/g, "").trim()
RECURSIVE StripFences(_)
StripFences(chunks) ==
  IF chunks = <<>> THEN <<>>
  ELSE IF Head(chunks).tok \in {"fence_json", "fence"} THEN StripFences(Tail(chunks))
       ELSE <<Head(chunks)>> \o StripFences(Tail(chunks))

\* JSON.parse: succeeds on exactly one stretch of valid JSON text
JsonParses(chunks) == Len(chunks) = 1 /\ chunks[1].valid

\* A value and whether computing it threw
Returned(v) == [threw |-> FALSE, value |-> v]
Threw == [threw |-> TRUE, value |-> NullList]

\* data?.choices?.[0]?.message?.content
\*   ?? data?.choices?.[0]?.message?.content?.[0]?.text ?? ""
ContentOf(content) ==
  IF content.kind \in {"undefined", "null"} THEN StringContent(<<>>)
  ELSE content

\* !content
Falsy(content) == content.kind = "string" /\ content.chunks = <<>>

\* lines 61-62, for the value JSON.parse returned
ListOfParsed(parsed) ==
  IF parsed.shape = "array" THEN parsed.list
  ELSE IF parsed.shape = "object" /\ parsed.list.kind = "array" THEN parsed.list
  ELSE NullList

\* lines 59-64, for the stripped text
ParseStripped(stripped) ==
  IF JsonParses(stripped) THEN ListOfParsed(stripped[1]) ELSE NullList

parseLLMJson(content) ==
  IF Falsy(content) THEN Returned(NullList)
  ELSE IF content.kind # "string" THEN Threw  \* content.replace is not a function
  ELSE Returned(ParseStripped(StripFences(content.chunks)))

\* lines 255-256, for the stripped text
DataOfStripped(stripped) ==
  IF JsonParses(stripped) /\ stripped[1].shape = "object"
     /\ stripped[1].list.kind = "array"
  THEN stripped[1].list ELSE NullList

\* lines 253-258: the second parse, when parseLLMJson gave nothing
SecondParse(out, content) ==
  IF out.threw THEN out
  ELSE IF out.value.kind # "array" /\ ~Falsy(content)
       THEN Returned(DataOfStripped(StripFences(content.chunks)))
       ELSE out

\* lines 252-258
ExtractCandidates(content) == SecondParse(parseLLMJson(content), content)

\* ------------------------------------------------------------------------
\* HTTP responses of the handler
\* ------------------------------------------------------------------------
NoResponse == [status |-> 0, body |-> "none", data |-> NullList]
EndResponse(status) == [status |-> status, body |-> "none", data |-> NullList]
ErrorResponse(status) == [status |-> status, body |-> "error", data |-> NullList]
DataResponse(cleaned) == [status |-> 200, body |-> "data", data |-> cleaned]

\* lines 260-265
RespondToCleaned(cleaned) ==
  IF cleaned.kind # "array" THEN ErrorResponse(502) ELSE DataResponse(cleaned)

\* lines 252-265; an exception of the extraction reaches the handler's catch
RespondToExtracted(out, word) ==
  IF out.threw THEN ErrorResponse(500)
  ELSE RespondToCleaned(sanitizeAndCoerce20(out.value, word))

\* lines 246-265: what the handler answers once withRetry has returned data
RespondToData(content, word) ==
  RespondToExtracted(ExtractCandidates(ContentOf(content)), word)

\* lines 266-272: the handler's catch
RespondToError(e) ==
  IF e.name = "AbortError" THEN ErrorResponse(504) ELSE ErrorResponse(500)

\* ------------------------------------------------------------------------
\* State
\* ------------------------------------------------------------------------
VARIABLES
  calls,        \* two invocations in flight at once: the locals of each
  signals,      \* the aborted flag of every AbortController allocated
  tone,         \* normTone's argument: req.body.tone
  toneLevel,    \* what normTone returned for it, "unset" before the call
  candidates,   \* sanitizeAndCoerce20's first argument
  topicWord,    \* sanitizeAndCoerce20's second argument
  coerced,      \* what sanitizeAndCoerce20 returned for them
  recoerced,    \* what it returned when applied to that result
  step,         \* "input" | "coerced" | "recoerced"
  pc,           \* where the handler is suspended: "idle" | "fetch" | "readText"
                \*   | "readJson" | "backoff" | "done"
  req,          \* the request: method, body.word, whether XAI_API_KEY is set
  i,            \* withRetry's loop index
  lastErr,      \* withRetry's lastErr
  resp,         \* the upstream response in hand: status, statusText
  timer,        \* "unset" | "armed" | "cleared" | "fired"
  aborted,      \* AC.signal.aborted
  res,          \* the HTTP response sent
  attempts,     \* history: how many times fetchOnce was called
  errs,         \* history: the error of every failed attempt
  waits,        \* history: the backoff waits, in ms
  outcome,      \* history: withRetry "pending" | "returned" | "threw"
  thrown,       \* history: the error withRetry threw
  payload,      \* history: the content of the payload withRetry returned
  sent,         \* history: how many HTTP responses were sent
  armed,        \* history: how many times the timer was armed
  firedAt,      \* history: pc, settled attempts and upstream responses when the
                \*   timer fired
  responses     \* history: how many upstream responses fetch resolved with

pairVars == <<calls, signals>>
toneVars == <<tone, toneLevel>>
enforceVars == <<candidates, topicWord, coerced, recoerced, step>>
handlerVars == <<pc, req, i, lastErr, resp, timer, aborted, res, attempts, errs,
                 waits, outcome, thrown, payload, sent, armed, firedAt, responses>>
vars == <<calls, signals, tone, toneLevel, candidates, topicWord, coerced, recoerced, step,
          pc, req, i, lastErr, resp, timer, aborted, res, attempts, errs,
          waits, outcome, thrown, payload, sent, armed, firedAt, responses>>

NoResp == [status |-> 0, statusText |-> <<>>]
NotFired == [pc |-> "none", settled |-> 0, responses |-> 0]

HandlerIdle ==
  /\ pc = "idle"
  /\ req = [method |-> "", word |-> Undefined, key |-> FALSE]
  /\ i = 0
  /\ lastErr = NoErr
  /\ resp = NoResp
  /\ timer = "unset"
  /\ aborted = FALSE
  /\ res = NoResponse
  /\ attempts = 0
  /\ errs = <<>>
  /\ waits = <<>>
  /\ outcome = "pending"
  /\ thrown = NoErr
  /\ payload = NoContent
  /\ sent = 0
  /\ armed = 0
  /\ firedAt = NotFired
  /\ responses = 0

ToneIdle ==
  /\ tone = Undefined
  /\ toneLevel = "unset"

Invocations == {1, 2}

\* The locals of an invocation that has not started
CallIdle ==
  [pc |-> "idle", req |-> [method |-> "", word |-> Undefined, key |-> FALSE],
   ac |-> 0, timer |-> "unset", i |-> 0, lastErr |-> NoErr, status |-> 0,
   attempts |-> 0, errs |-> <<>>, waits |-> <<>>, outcome |-> "pending",
   payload |-> NoContent, res |-> NoResponse, sent |-> 0]

PairIdle ==
  /\ calls = [k \in Invocations |-> CallIdle]
  /\ signals = [k \in Invocations |-> FALSE]

EnforceIdle ==
  /\ candidates = NullList
  /\ topicWord = <<"w">>
  /\ coerced = NullList
  /\ recoerced = NullList
  /\ step = "input"

\* ------------------------------------------------------------------------
\* Inputs of the repair pipeline
\* ------------------------------------------------------------------------
Leads == { <<>>, <<"wa", "ka", "ru">>, <<"sp">>, <<"x", "ten">> }
Tails == { <<>>, <<"maru">>, <<"?">>, <<"ten">>, <<"sp">>,
           <<"sp", "nl", "x">>, <<"sp", "x", "x", "x", "x">>,
           <<"fq", "x", "x", "x", "x", "x">>,
           <<"dou", "kan", "x", "x">>,
           <<"sp", "dou", "kan", "!">> }

Texts == { lead \o Rep("x", n) \o tail :
             lead \in Leads, n \in 0..MaxFill, tail \in Tails }

TextValues == {Undefined, JsNull, Num(0), Num(1234567890), Str(<<"o", "k">>),
               Str(<<"hon", "tou">>),
               Str(Rep("x", 12) \o <<"maru">>)}

Words == {Rep("w", n) : n \in 1..MaxWordFill} \cup {Rep("w", LongWordLen)}

UpstreamSpeakers == {"A", "B", "C", ""}

\* A list of len elements, every one carrying the same speaker and text
Uniform(len, speaker, text) == Arr([j \in 1..len |-> Obj(speaker, text)])

\* A list of 20 elements with upstream's speakers the wrong way round
Swapped(text) ==
  Arr([j \in 1..TurnCount |-> Obj(SpeakerOf(j), text)])

\* A list of len elements, null at position k
WithNullAt(len, k, text) ==
  Arr([j \in 1..len |-> IF j = k THEN NullItem ELSE Obj("A", text)])

ShapeInputs ==
  {NullList, NotArray}
  \cup {Uniform(len, sp, tv) :
          len \in 0..MaxListLen, sp \in UpstreamSpeakers, tv \in TextValues}
  \cup {WithNullAt(TurnCount, k, Str(<<"o", "k">>)) : k \in 1..TurnCount}

\* A list of 20 elements, one of them carrying another text value
WithTextAt(k, tv) ==
  Arr([j \in 1..TurnCount |->
         Obj("A", IF j = k THEN tv ELSE Str(Rep("x", 12) \o <<"maru">>))])

MixedInputs == {WithTextAt(k, tv) : k \in 1..TurnCount, tv \in TextValues}

TextInputs == {Swapped(Str(t)) : t \in Texts}

InitEnforce ==
  /\ \/ candidates \in ShapeInputs \cup MixedInputs /\ topicWord \in Words
     \/ candidates \in TextInputs /\ topicWord = <<"w">>
  /\ coerced = NullList
  /\ recoerced = NullList
  /\ step = "input"
  /\ HandlerIdle
  /\ ToneIdle
  /\ PairIdle

Coerce ==
  /\ step = "input"
  /\ coerced' = sanitizeAndCoerce20(candidates, topicWord)
  /\ step' = "coerced"
  /\ UNCHANGED <<candidates, topicWord, recoerced>>
  /\ UNCHANGED <<handlerVars, toneVars, pairVars>>

Recoerce ==
  /\ step = "coerced"
  /\ recoerced' = sanitizeAndCoerce20(coerced, topicWord)
  /\ step' = "recoerced"
  /\ UNCHANGED <<candidates, topicWord, coerced>>
  /\ UNCHANGED <<handlerVars, toneVars, pairVars>>

NextEnforce == Coerce \/ Recoerce

SpecEnforce == InitEnforce /\ [][NextEnforce]_vars

\* ------------------------------------------------------------------------
\* Inputs of normTone
\* ------------------------------------------------------------------------
\* Pieces a tone string is put together from: the keywords, keywords in
\* upper and mixed case, and pieces of keywords
ToneFragments ==
  { <<>>,
    <<"kara">>, <<"h", "a", "r", "d">>, <<"h", "a", "r", "s", "h">>,
    <<"tetsu">>, <<"p", "h", "i", "l", "o">>,
    <<"shin", "ya">>, <<"l", "a", "t", "e">>,
    <<"yu", "ru">>, <<"m", "i", "l", "d">>,
    <<"H", "A", "R", "D">>, <<"H", "a", "r", "s", "h">>,
    <<"P", "H", "I", "L", "O">>, <<"L", "a", "t", "e">>,
    <<"m", "i", "L", "D">>,
    <<"h", "a", "r">>, <<"d">>, <<"p", "h", "i">>, <<"l", "a", "t">>,
    <<"e">>, <<"M", "i", "l">>, <<"shin">>, <<"ya", "shin">>, <<"yu">> }

TonePads == { <<>>, <<"x", "sp">> }

ToneInputs ==
  {Undefined, JsNull, Num(0), Num(7), Str(<<>>)}
  \cup {Str(pad \o a \o b) :
          pad \in TonePads, a \in ToneFragments, b \in ToneFragments}

InitTone ==
  /\ tone \in ToneInputs
  /\ toneLevel = "unset"
  /\ EnforceIdle
  /\ HandlerIdle
  /\ PairIdle

\* line 152: const toneLevel = normTone(tone)
NormalizeTone ==
  /\ toneLevel = "unset"
  /\ toneLevel' = normTone(tone)
  /\ UNCHANGED tone
  /\ UNCHANGED <<enforceVars, handlerVars, pairVars>>

NextTone == NormalizeTone

SpecTone == InitTone /\ [][NextTone]_vars

\* ------------------------------------------------------------------------
\* The handler
\* ------------------------------------------------------------------------
Methods == {"OPTIONS", "GET", "POST"}
\* req.body.word: absent, not a string, the empty string, a topic word
BodyWords == {Undefined, Num(7), Str(<<>>), Str(<<"w">>), Str(<<"w", "sp", "w">>)}

\* The upstream's answers
Statuses == {200, 400, 429, 503, 599}
StatusTexts == { <<>>, <<"E", "r", "r">> }
Bodies == { <<>>, <<"b", "a", "d">>, <<"c", "o", "d", "e", "sp", "5", "0", "3">>,
            <<"4", "2", "9">>, <<"x", "4", "2", "9">> }

GoodList == Uniform(TurnCount, "B", Str(Rep("x", 12) \o <<"maru">>))
ShortList == Uniform(2, "A", Str(<<"o", "k">>))

ContentChunks ==
  { <<>>, <<Garbage>>, <<JsonNumber>>, <<JsonNullText>>,
    <<JsonArray(GoodList)>>, <<JsonArray(ShortList)>>,
    <<JsonObject(GoodList)>>, <<JsonObject(NotArray)>>, <<JsonObject(NullList)>>,
    <<FenceJson, JsonObject(GoodList), Fence>>, <<Fence, JsonArray(GoodList), Fence>>,
    <<JsonObject(GoodList), Garbage>> }

Contents ==
  {NoContent, NullContent}
  \cup {StringContent(c) : c \in ContentChunks}
  \cup {BlockContent(c) : c \in {<<JsonObject(GoodList)>>, <<Garbage>>}}

\* The handler returning without a call of res.status(...): nothing is sent
ReturnUnanswered(r) ==
  /\ res' = res
  /\ sent' = sent
  /\ pc' = "done"

\* res.status(...).json(...) / .end()
Respond(r) ==
  /\ res' = r
  /\ sent' = sent + 1
  /\ pc' = "done"

\* The handler up to its first await with the credential tested before the
\* word: lines 148-150 ahead of lines 145-147
ReceiveKeyFirst ==
  /\ pc = "idle"
  /\ \E method \in Methods, word \in BodyWords, key \in BOOLEAN :
       /\ req' = [method |-> method, word |-> word, key |-> key]
       /\ IF method = "OPTIONS" THEN
            Respond(EndResponse(200)) /\ UNCHANGED <<timer, armed, attempts>>
          ELSE IF method # "POST" THEN
            Respond(ErrorResponse(405)) /\ UNCHANGED <<timer, armed, attempts>>
          ELSE IF ~key THEN
            Respond(ErrorResponse(500)) /\ UNCHANGED <<timer, armed, attempts>>
          ELSE IF word.kind # "string" \/ word.s = <<>> THEN
            Respond(ErrorResponse(400)) /\ UNCHANGED <<timer, armed, attempts>>
          ELSE
            /\ timer' = "armed"
            /\ armed' = armed + 1
            /\ attempts' = attempts + 1
            /\ pc' = "fetch"
            /\ UNCHANGED <<res, sent>>
  /\ i' = 0
  /\ UNCHANGED <<lastErr, resp, aborted, errs, waits, outcome, thrown, payload,
                 firedAt, responses>>
  /\ UNCHANGED <<enforceVars, toneVars, pairVars>>

\* lines 138-187: the handler up to its first await
Receive ==
  /\ pc = "idle"
  /\ \E method \in Methods, word \in BodyWords, key \in BOOLEAN :
       /\ req' = [method |-> method, word |-> word, key |-> key]
       /\ IF method = "OPTIONS" THEN
            Respond(EndResponse(200)) /\ UNCHANGED <<timer, armed, attempts>>
          ELSE IF method # "POST" THEN
            Respond(ErrorResponse(405)) /\ UNCHANGED <<timer, armed, attempts>>
          ELSE IF word.kind # "string" \/ word.s = <<>> THEN
            Respond(ErrorResponse(400)) /\ UNCHANGED <<timer, armed, attempts>>
          ELSE IF ~key THEN
            Respond(ErrorResponse(500)) /\ UNCHANGED <<timer, armed, attempts>>
          ELSE
            /\ timer' = "armed"
            /\ armed' = armed + 1
            /\ attempts' = attempts + 1
            /\ pc' = "fetch"
            /\ UNCHANGED <<res, sent>>
  /\ i' = 0
  /\ UNCHANGED <<lastErr, resp, aborted, errs, waits, outcome, thrown, payload,
                 firedAt, responses>>
  /\ UNCHANGED <<enforceVars, toneVars, pairVars>>

\* withRetry's catch block for the error e of attempt i, with lastErr set to
\* kept, and what follows it: the backoff wait, or the throw of lastErr that
\* the handler's catch answers
CatchAttempt(e, kept) ==
  /\ lastErr' = kept
  /\ errs' = Append(errs, e)
  /\ IF isRetryableStatus(e.status, e.message) /\ i < Times - 1
     THEN /\ waits' = Append(waits, BackoffWait(i))
          /\ pc' = "backoff"
          /\ UNCHANGED <<outcome, thrown, res, sent>>
     ELSE /\ outcome' = "threw"
          /\ thrown' = kept
          /\ Respond(RespondToError(kept))
          /\ UNCHANGED waits

\* The catch block keeping the first error it saw: lastErr ??= e
AttemptFailedKeepsFirst(e) ==
  CatchAttempt(e, IF lastErr = NoErr THEN e ELSE lastErr)

\* lines 38-51: lastErr = e
AttemptFailed(e) == CatchAttempt(e, e)

\* lines 243-265: withRetry returns the payload, the timer is cleared, the
\* content is extracted, repaired and answered
AttemptSucceeded(content) ==
  /\ outcome' = "returned"
  /\ payload' = content
  /\ timer' = IF timer = "armed" THEN "cleared" ELSE timer
  /\ Respond(RespondToData(content, req.word.s))

\* fetch resolves with the upstream's status line and headers
FetchResponds ==
  /\ pc = "fetch"
  /\ ~aborted
  /\ \E status \in Statuses, statusText \in StatusTexts :
       /\ resp' = [status |-> status, statusText |-> statusText]
       /\ pc' = IF status >= 200 /\ status <= 299 THEN "readJson" ELSE "readText"
  /\ responses' = responses + 1
  /\ UNCHANGED <<req, i, lastErr, timer, aborted, res, attempts, errs, waits,
                 outcome, thrown, payload, sent, armed, firedAt>>
  /\ UNCHANGED <<enforceVars, toneVars, pairVars>>

\* fetch rejects: the upstream could not be reached
FetchFails ==
  /\ pc = "fetch"
  /\ ~aborted
  /\ AttemptFailed(FetchFailed)
  /\ UNCHANGED <<req, i, resp, timer, aborted, attempts, payload, armed,
                 firedAt, responses>>
  /\ UNCHANGED <<enforceVars, toneVars, pairVars>>

\* fetch rejects because the signal has aborted
FetchAborted ==
  /\ pc = "fetch"
  /\ aborted
  /\ AttemptFailed(AbortError)
  /\ UNCHANGED <<req, i, resp, timer, aborted, attempts, payload, armed,
                 firedAt, responses>>
  /\ UNCHANGED <<enforceVars, toneVars, pairVars>>

\* safeText: resp.text() resolves with the body of an error response
TextRead ==
  /\ pc = "readText"
  /\ ~aborted
  /\ \E body \in Bodies :
       AttemptFailed(UpstreamError(resp.status, safeTextSlice(body), resp.statusText))
  /\ UNCHANGED <<req, i, resp, timer, aborted, attempts, payload, armed,
                 firedAt, responses>>
  /\ UNCHANGED <<enforceVars, toneVars, pairVars>>

\* safeText: resp.text() rejects (the connection broke, or the signal has
\* aborted) and safeText's catch returns ""
TextFails ==
  /\ pc = "readText"
  /\ AttemptFailed(UpstreamError(resp.status, <<>>, resp.statusText))
  /\ UNCHANGED <<req, i, resp, timer, aborted, attempts, payload, armed,
                 firedAt, responses>>
  /\ UNCHANGED <<enforceVars, toneVars, pairVars>>

\* resp.json() resolves with the parsed envelope
JsonRead ==
  /\ pc = "readJson"
  /\ ~aborted
  /\ \E content \in Contents : AttemptSucceeded(content)
  /\ UNCHANGED <<req, i, lastErr, resp, aborted, attempts, errs, waits, thrown,
                 armed, firedAt, responses>>
  /\ UNCHANGED <<enforceVars, toneVars, pairVars>>

\* resp.json() rejects: the body is no JSON text
JsonFails ==
  /\ pc = "readJson"
  /\ ~aborted
  /\ \E e \in JsonErrors : AttemptFailed(e)
  /\ UNCHANGED <<req, i, resp, timer, aborted, attempts, payload, armed,
                 firedAt, responses>>
  /\ UNCHANGED <<enforceVars, toneVars, pairVars>>

\* resp.json() rejects because the signal has aborted
JsonAborted ==
  /\ pc = "readJson"
  /\ aborted
  /\ AttemptFailed(AbortError)
  /\ UNCHANGED <<req, i, resp, timer, aborted, attempts, payload, armed,
                 firedAt, responses>>
  /\ UNCHANGED <<enforceVars, toneVars, pairVars>>

\* the backoff wait is over: continue, i++, and the loop's test; the next
\* call of fetchOnce starts its fetch
BackoffDone ==
  /\ pc = "backoff"
  /\ i' = i + 1
  /\ IF i + 1 < Times
     THEN /\ attempts' = attempts + 1
          /\ pc' = "fetch"
          /\ UNCHANGED <<outcome, thrown, res, sent>>
     ELSE /\ outcome' = "threw"
          /\ thrown' = lastErr
          /\ Respond(RespondToError(lastErr))
          /\ UNCHANGED attempts
  /\ UNCHANGED <<req, lastErr, resp, timer, aborted, errs, waits, payload,
                 armed, firedAt, responses>>
  /\ UNCHANGED <<enforceVars, toneVars, pairVars>>

\* the timeout's callback: AC.abort()
TimerFires ==
  /\ timer = "armed"
  /\ timer' = "fired"
  /\ aborted' = TRUE
  /\ firedAt' = [pc |-> pc, settled |-> Len(errs), responses |-> responses]
  /\ UNCHANGED <<pc, req, i, lastErr, resp, res, attempts, errs, waits,
                 outcome, thrown, payload, sent, armed, responses>>
  /\ UNCHANGED <<enforceVars, toneVars, pairVars>>

Init == EnforceIdle /\ HandlerIdle /\ ToneIdle /\ PairIdle

Next ==
  \/ Receive
  \/ FetchResponds
  \/ FetchFails
  \/ FetchAborted
  \/ TextRead
  \/ TextFails
  \/ JsonRead
  \/ JsonFails
  \/ JsonAborted
  \/ BackoffDone
  \/ TimerFires

Spec == Init /\ [][Next]_vars

\* Every await of the handler settles: fetch, resp.text() and resp.json()
\* resolve or reject (each rejects once the signal has aborted), and the
\* backoff's setTimeout fires
Settle ==
  \/ FetchResponds
  \/ FetchFails
  \/ FetchAborted
  \/ TextRead
  \/ TextFails
  \/ JsonFails
  \/ JsonAborted
  \/ BackoffDone
  \/ JsonRead

SpecLive == Spec /\ WF_vars(Settle)

\* ------------------------------------------------------------------------
\* Two invocations of the handler in flight at once
\* ------------------------------------------------------------------------
PairRequests ==
  { [method |-> "OPTIONS", word |-> Undefined, key |-> TRUE],
    [method |-> "GET", word |-> Str(<<"w">>), key |-> TRUE],
    [method |-> "POST", word |-> Undefined, key |-> TRUE],
    [method |-> "POST", word |-> Str(<<"w">>), key |-> FALSE],
    [method |-> "POST", word |-> Str(<<"w">>), key |-> TRUE] }
PairStatuses == {200, 400, 503}
PairBodies == { <<>>, <<"b", "a", "d">> }
PairContents == {StringContent(<<JsonArray(GoodList)>>), StringContent(<<Garbage>>)}

\* One AbortController for all invocations, as a constant of the module
\* would be
SharedController(k) == 1

\* line 182: const AC = new AbortController(), a new object per invocation
NewController(k) == k

\* res.status(...).json(...) of the invocation with locals c
Answer(c, r) == [c EXCEPT !.res = r, !.sent = @ + 1, !.pc = "done"]

\* lines 138-187 for invocation k
Invoke(k) ==
  /\ calls[k].pc = "idle"
  /\ \E r \in PairRequests :
       calls' = [calls EXCEPT ![k] =
         IF r.method = "OPTIONS" THEN
           Answer([calls[k] EXCEPT !.req = r], EndResponse(200))
         ELSE IF r.method # "POST" THEN
           Answer([calls[k] EXCEPT !.req = r], ErrorResponse(405))
         ELSE IF r.word.kind # "string" \/ r.word.s = <<>> THEN
           Answer([calls[k] EXCEPT !.req = r], ErrorResponse(400))
         ELSE IF ~r.key THEN
           Answer([calls[k] EXCEPT !.req = r], ErrorResponse(500))
         ELSE
           [calls[k] EXCEPT !.req = r, !.ac = NewController(k),
                            !.timer = "armed", !.attempts = 1, !.pc = "fetch"]]
  /\ UNCHANGED signals
  /\ UNCHANGED <<enforceVars, handlerVars, toneVars>>

\* lines 38-51 and 266-272 for the locals c and the attempt's error e
CallCatch(c, e) ==
  IF isRetryableStatus(e.status, e.message) /\ c.i < Times - 1
  THEN [c EXCEPT !.lastErr = e, !.errs = Append(@, e),
                 !.waits = Append(@, BackoffWait(c.i)), !.pc = "backoff"]
  ELSE Answer([c EXCEPT !.lastErr = e, !.errs = Append(@, e),
                        !.outcome = "threw"],
              RespondToError(e))

\* lines 243-265 for the locals c and the returned content
CallReturn(c, content) ==
  Answer([c EXCEPT !.payload = content, !.outcome = "returned",
                   !.timer = IF @ = "armed" THEN "cleared" ELSE @],
         RespondToData(content, c.req.word.s))

CallFetchResponds(k) ==
  /\ calls[k].pc = "fetch"
  /\ ~signals[calls[k].ac]
  /\ \E status \in PairStatuses :
       calls' = [calls EXCEPT ![k].status = status,
                              ![k].pc = IF status >= 200 /\ status <= 299
                                        THEN "readJson" ELSE "readText"]
  /\ UNCHANGED signals
  /\ UNCHANGED <<enforceVars, handlerVars, toneVars>>

CallFetchFails(k) ==
  /\ calls[k].pc = "fetch"
  /\ ~signals[calls[k].ac]
  /\ calls' = [calls EXCEPT ![k] = CallCatch(calls[k], FetchFailed)]
  /\ UNCHANGED signals
  /\ UNCHANGED <<enforceVars, handlerVars, toneVars>>

\* fetch or resp.json() rejects because the invocation's signal has aborted
CallAborted(k) ==
  /\ calls[k].pc \in {"fetch", "readJson"}
  /\ signals[calls[k].ac]
  /\ calls' = [calls EXCEPT ![k] = CallCatch(calls[k], AbortError)]
  /\ UNCHANGED signals
  /\ UNCHANGED <<enforceVars, handlerVars, toneVars>>

\* safeText: the body of an error response, "" when resp.text() rejects
CallTextRead(k) ==
  /\ calls[k].pc = "readText"
  /\ \E body \in PairBodies :
       /\ body # <<>> => ~signals[calls[k].ac]
       /\ calls' = [calls EXCEPT ![k] =
            CallCatch(calls[k], UpstreamError(calls[k].status, body, <<>>))]
  /\ UNCHANGED signals
  /\ UNCHANGED <<enforceVars, handlerVars, toneVars>>

CallJsonRead(k) ==
  /\ calls[k].pc = "readJson"
  /\ ~signals[calls[k].ac]
  /\ \E content \in PairContents :
       calls' = [calls EXCEPT ![k] = CallReturn(calls[k], content)]
  /\ UNCHANGED signals
  /\ UNCHANGED <<enforceVars, handlerVars, toneVars>>

CallBackoffDone(k) ==
  /\ calls[k].pc = "backoff"
  /\ calls' = [calls EXCEPT ![k] =
       IF calls[k].i + 1 < Times
       THEN [calls[k] EXCEPT !.i = @ + 1, !.attempts = @ + 1, !.pc = "fetch"]
       ELSE Answer([calls[k] EXCEPT !.i = @ + 1, !.outcome = "threw"],
                   RespondToError(calls[k].lastErr))]
  /\ UNCHANGED signals
  /\ UNCHANGED <<enforceVars, handlerVars, toneVars>>

\* line 184: the timer's callback aborts the controller of its invocation
CallTimerFires(k) ==
  /\ calls[k].timer = "armed"
  /\ calls' = [calls EXCEPT ![k].timer = "fired"]
  /\ signals' = [signals EXCEPT ![calls[k].ac] = TRUE]
  /\ UNCHANGED <<enforceVars, handlerVars, toneVars>>

NextPair ==
  \E k \in Invocations :
    \/ Invoke(k)
    \/ CallFetchResponds(k)
    \/ CallFetchFails(k)
    \/ CallAborted(k)
    \/ CallTextRead(k)
    \/ CallJsonRead(k)
    \/ CallBackoffDone(k)
    \/ CallTimerFires(k)

SpecPair == Init /\ [][NextPair]_vars

\* ------------------------------------------------------------------------
\* Claims about the repair pipeline (checked under SpecEnforce)
\* ------------------------------------------------------------------------

\* C1: whenever sanitizeAndCoerce20 returns a non-null result it has exactly
\* 20 turns, turn i has speaker A for even i and B for odd i, every turn
\* 0..18 has a text of 10 to 70 code units and turn 19 is the closing line;
\* the result is null or such a list, never a list of another length.
C1_DialogueShape ==
  step # "input" =>
    /\ coerced.kind \in {"null", "array"}
    /\ coerced.kind = "array" =>
         /\ Len(coerced.elems) = 20
         /\ \A k \in 1..Len(coerced.elems) :
              /\ coerced.elems[k].speaker = (IF k % 2 = 1 THEN "A" ELSE "B")
              /\ k < 20 => /\ Len(coerced.elems[k].text.s) >= 10
                           /\ Len(coerced.elems[k].text.s) <= 70
         /\ coerced.elems[20].text.s = <<"so", "u", "da", "ne", "maru">>

\* C1 witness: a list of 21 candidates, all labelled "C" with the text "ok"
\* (candidate 19 included), has been coerced into a dialogue.
C1_Witness ==
  /\ step = "coerced"
  /\ coerced.kind = "array"
  /\ candidates = Uniform(21, "C", Str(<<"o", "k">>))

\* The candidates are 20 objects whose texts are strings of 10 to 70 units
InBounds(items) ==
  /\ items.kind = "array"
  /\ Len(items.elems) = 20
  /\ \A k \in 1..Len(items.elems) :
       /\ items.elems[k].kind = "object"
       /\ items.elems[k].text.kind = "string"
       /\ Len(items.elems[k].text.s) >= 10
       /\ Len(items.elems[k].text.s) <= 70

\* C10: for every list of 20 candidates whose texts all have 10 to 70 code
\* units, applying sanitizeAndCoerce20 to its own output (same topic word)
\* returns a dialogue equal to that output.
C10_Idempotent ==
  (step = "recoerced" /\ InBounds(candidates)) => recoerced = coerced

\* The candidates have fewer than 20 entries: null, no array, or a short list
FewerThanTwenty(items) ==
  items.kind # "array" \/ Len(items.elems) < 20

\* The 1-based positions of the slots that no candidate fills
MissingSlots(items) ==
  {k \in 1..19 : items.kind # "array" \/ k > Len(items.elems)}

\* C11: for every candidate list with fewer than 20 entries (also null) and
\* every non-empty topic word, also one longer than 70 units, each missing
\* slot 0..18 carries a repaired text of 10 to 70 code units and the result
\* of sanitizeAndCoerce20 is a dialogue, not null.
C11_MissingSlotsFilled ==
  (step # "input" /\ FewerThanTwenty(candidates) /\ topicWord # <<>>) =>
    /\ coerced.kind = "array"
    /\ \A k \in MissingSlots(candidates) :
         /\ k <= Len(coerced.elems)
         /\ Len(coerced.elems[k].text.s) >= 10
         /\ Len(coerced.elems[k].text.s) <= 70

\* C11 witness: a list of 15 candidates with a topic word of more than 70
\* units has been coerced, and slot 15 holds a text of exactly 70 units.
C11_Witness ==
  /\ step = "coerced"
  /\ candidates.kind = "array"
  /\ Len(candidates.elems) = 15
  /\ Len(topicWord) > 70
  /\ coerced.kind = "array"
  /\ Len(coerced.elems[16].text.s) = 70

\* The text contains a phrase of the empathetic-marker set
HasEmpathy(text) == \E t \in EMPATHY_TOKENS : Includes(text, t)

\* C12: in every dialogue sanitizeAndCoerce20 returns, whatever the candidate
\* texts (any length, a marker anywhere or none), each turn 0..18 contains at
\* least one phrase of the empathetic-marker set.
C12_EveryTurnEmpathetic ==
  (step # "input" /\ coerced.kind = "array") =>
    \A k \in 1..19 :
      k <= Len(coerced.elems) => HasEmpathy(coerced.elems[k].text.s)

\* The text needs no repair: trimmed, its only whitespace single spaces, 10
\* to 70 code units, a marker in it, a terminal mark at its end
Compliant(t) ==
  /\ Len(t) >= 10
  /\ Len(t) <= 70
  /\ t[1] \notin {"sp", "nl", "fsp"}
  /\ \A p \in 1..Len(t) : t[p] \notin {"nl", "fsp"}
  /\ \A p \in 1..(Len(t) - 1) : ~(t[p] = "sp" /\ t[p + 1] = "sp")
  /\ \E m \in EMPATHY_TOKENS :
       \E p \in 1..Len(t) : p + Len(m) - 1 <= Len(t) /\ SubSeq(t, p, p + Len(m) - 1) = m
  /\ t[Len(t)] \in {"maru", "fbang", "fq", "!", "?"}

\* Candidate k (1-based) is an object whose text is a compliant string
CompliantAt(items, k) ==
  /\ items.kind = "array"
  /\ k <= Len(items.elems)
  /\ items.elems[k].kind = "object"
  /\ items.elems[k].text.kind = "string"
  /\ Compliant(items.elems[k].text.s)

\* C17: the repair leaves compliant lines unchanged: a candidate text at
\* index 0..18 that is trimmed with single spaces, has 10 to 70 code units,
\* contains a marker and ends in a terminal mark is the text of that turn in
\* the returned dialogue.
C17_CompliantUnchanged ==
  step # "input" =>
    \A k \in 1..19 :
      CompliantAt(candidates, k) =>
        /\ coerced.kind = "array"
        /\ k <= Len(coerced.elems)
        /\ coerced.elems[k].text.s = candidates.elems[k].text.s

\* C17 witness: a candidate labelled B at index 0 whose compliant text holds
\* a single space and ends in the ASCII mark ! came back as turn 0 with the
\* same text and the label A.
C17_Witness ==
  /\ step = "coerced"
  /\ CompliantAt(candidates, 1)
  /\ candidates.elems[1].speaker = "B"
  /\ \E p \in 1..Len(candidates.elems[1].text.s) :
       candidates.elems[1].text.s[p] = "sp"
  /\ candidates.elems[1].text.s[Len(candidates.elems[1].text.s)] = "!"
  /\ coerced.kind = "array"
  /\ coerced.elems[1] = Obj("A", candidates.elems[1].text)

\* ------------------------------------------------------------------------
\* Claims about the handler (checked under Spec)
\* ------------------------------------------------------------------------

\* The extractor gave null for the content: no exception, and no list
ExtractorYieldsNull(content) ==
  /\ ~ExtractCandidates(ContentOf(content)).threw
  /\ ExtractCandidates(ContentOf(content)).value.kind # "array"

\* C2: whenever the upstream call succeeds but the extractor yields null for
\* its content, the handler responds 502 and never 200 with a dialogue.
C2_FormatInvalidIs502 ==
  (pc = "done" /\ outcome = "returned" /\ ExtractorYieldsNull(payload))
    => res.status = 502

\* The retry rule as the specification states it
StatedRetryable(e) ==
  \/ e.status = 429
  \/ e.status >= 500 /\ e.status <= 599
  \/ e.status = 0 /\ MatchesRetryPattern(e.message)

\* Attempt k (1-based) was followed by a backoff wait and another attempt
FollowedByRetry(k) == Len(waits) >= k

\* C3: a failed attempt that is not the last allowed one is followed by
\* another attempt if and only if its error's status is 429, or in 500..599,
\* or the error carries no status and its message matches the 429/5xx pattern.
C3_RetryIffStated ==
  \A k \in 1..Len(errs) :
    k < 3 => (FollowedByRetry(k) <=> StatedRetryable(errs[k]))

\* C4: if the first attempt fails with an HTTP status other than 429 and
\* outside 500..599, then whatever body the upstream sent, no further attempt
\* is made and no backoff wait occurs.
C4_NoRetryOnOtherStatus ==
  (/\ Len(errs) >= 1
   /\ errs[1].status # 0
   /\ errs[1].status # 429
   /\ ~(errs[1].status >= 500 /\ errs[1].status <= 599))
    => (attempts = 1 /\ waits = <<>>)

\* C5: the wait after 0-indexed attempt i is 400 * 2^i ms; with 3 allowed
\* attempts of which the first two fail with status 503 the waits are exactly
\* 400 then 800, and the outcome of attempt 3, success or failure, is
\* withRetry's outcome with no wait after it.
C5_BackoffTiming ==
  /\ \A k \in 1..Len(waits) :
       waits[k] = (CASE k = 1 -> 400 [] k = 2 -> 800 [] OTHER -> 400 * 2^(k - 1))
  /\ (Len(errs) >= 2 /\ errs[1].status = 503 /\ errs[2].status = 503) =>
       /\ waits = <<400, 800>>
       /\ Len(errs) = 3 => (pc = "done" /\ outcome = "threw" /\ thrown = errs[3])
       /\ outcome = "returned" => (pc = "done" /\ attempts = 3)

\* C5 witness: three attempts failed with 503, the waits were 400 and 800,
\* and the third error was thrown.
C5_Witness ==
  /\ pc = "done"
  /\ Len(errs) = 3
  /\ \A k \in 1..3 : errs[k].status = 503
  /\ waits = <<400, 800>>
  /\ thrown = errs[3]

\* C6: in every execution of withRetry the attempt function is invoked at
\* least once and at most 3 times, a success is returned without further
\* attempts, and the error withRetry throws is the last attempt's error.
C6_AttemptsAndLastError ==
  /\ attempts <= 3
  /\ armed > 0 => attempts >= 1
  /\ outcome = "returned" => (attempts = Len(errs) + 1 /\ pc = "done")
  /\ outcome = "threw" =>
       (attempts = Len(errs) /\ Len(errs) >= 1 /\ thrown = errs[Len(errs)])

\* C6 witness: withRetry threw after three attempts whose first and last
\* errors differ.
C6_Witness ==
  /\ outcome = "threw"
  /\ attempts = 3
  /\ Len(errs) = 3
  /\ errs[1] # errs[3]

\* The timer fired while the first attempt was in flight
FiredInFirstAttempt ==
  /\ firedAt.pc \in {"fetch", "readText", "readJson"}
  /\ firedAt.settled = 0

\* C7: if the timeout fires before any upstream attempt has completed, at
\* whichever point of the attempt in flight, the request is answered 504 and
\* never 500.
C7_TimeoutIs504 ==
  (pc = "done" /\ FiredInFirstAttempt) => res.status = 504

\* C8: the timer is armed once per invocation; once it has fired during the
\* invocation no later attempt obtains an upstream response, and the
\* invocation ends with the timeout error.
C8_OneCancellationToken ==
  /\ armed <= 1
  /\ timer = "fired" => responses = firedAt.responses
  /\ (pc = "done" /\ timer = "fired" /\ firedAt.pc # "done") => res.status = 504

\* C9: a content that is a one-element list of blocks with a text sub-field is
\* answered exactly as the plain string of that text is, and no exception
\* escapes the extraction: the answer to a returned payload is never the 500
\* of the handler's catch.
C9_ExtractionNeverThrows ==
  (pc = "done" /\ outcome = "returned") =>
    /\ res.status # 500
    /\ payload.kind = "blocks" =>
         res = RespondToData(StringContent(payload.chunks), req.word.s)

\* The request's word is missing, not a string, or the empty string
BadWord(r) == r.word.kind # "string" \/ r.word.s = <<>>

\* The answer the specification states for a client-input error, 0 for a
\* request that is none
StatedEarlyStatus(r) ==
  IF r.method = "OPTIONS" THEN 200
  ELSE IF r.method # "POST" THEN 405
  ELSE IF BadWord(r) THEN 400
  ELSE IF ~r.key THEN 500
  ELSE 0

\* C13: a client-input error is answered in the handler's first step with no
\* upstream call: OPTIONS gets 200 with no body, another method than POST
\* gets 405 whatever the body, a POST whose word is missing, empty or no
\* string gets 400 with or without the credential, a POST with a word and no
\* credential gets 500; no upstream request is sent and no timer is armed.
C13_ClientErrorsAnsweredAtOnce ==
  (req.method # "" /\ StatedEarlyStatus(req) # 0) =>
    /\ pc = "done"
    /\ sent = 1
    /\ res.status = StatedEarlyStatus(req)
    /\ req.method = "OPTIONS" => res.body = "none"
    /\ attempts = 0
    /\ responses = 0
    /\ armed = 0
    /\ timer = "unset"

\* C13 witness: a POST without a word and without the credential has been
\* answered 400.
C13_Witness ==
  /\ pc = "done"
  /\ req.method = "POST"
  /\ req.word.kind = "undefined"
  /\ ~req.key
  /\ res.status = 400

\* ------------------------------------------------------------------------
\* Claims about the tone label (checked under SpecTone)
\* ------------------------------------------------------------------------

\* Code unit a of a text is letter b of a lower-case keyword, in either case
SameLetter(a, b) ==
  a = b \/ \E k \in 1..Len(UpperCase) : a = UpperCase[k] /\ b = LowerCase[k]

\* The keyword occurs in the text, whatever the case of the text's letters
ContainsNoCase(text, w) ==
  \E p \in 1..(Len(text) - Len(w) + 1) :
    \A k \in 1..Len(w) : SameLetter(text[p + k - 1], w[k])

\* The input is a text in which a keyword of the group occurs
GroupMatches(v, words) ==
  v.kind = "string" /\ \E w \in words : ContainsNoCase(v.s, w)

\* C14: normTone returns for every input, also undefined and text matching
\* nothing, exactly one of harsh, philosophical, late-night, mild, normal;
\* keywords match as substrings whatever the case; the groups are tried in
\* the order harsh, philosophical, late-night, mild, the first matching group
\* wins also when a later one matches, and no match gives normal.
C14_ToneFirstMatchWins ==
  toneLevel # "unset" =>
    /\ toneLevel \in {"harsh", "philosophical", "late-night", "mild", "normal"}
    /\ toneLevel = "harsh" <=> GroupMatches(tone, HarshWords)
    /\ toneLevel = "philosophical" <=>
         /\ ~GroupMatches(tone, HarshWords)
         /\ GroupMatches(tone, PhiloWords)
    /\ toneLevel = "late-night" <=>
         /\ ~GroupMatches(tone, HarshWords)
         /\ ~GroupMatches(tone, PhiloWords)
         /\ GroupMatches(tone, LateWords)
    /\ toneLevel = "mild" <=>
         /\ ~GroupMatches(tone, HarshWords)
         /\ ~GroupMatches(tone, PhiloWords)
         /\ ~GroupMatches(tone, LateWords)
         /\ GroupMatches(tone, MildWords)

\* C14 witness: a tone that spells the late-night keyword with a capital and
\* also holds a mild keyword has been labelled late-night.
C14_Witness ==
  /\ toneLevel = "late-night"
  /\ tone.kind = "string"
  /\ ~Includes(tone.s, <<"l", "a", "t", "e">>)
  /\ GroupMatches(tone, MildWords)

\* ------------------------------------------------------------------------
\* Claims about concurrent invocations (checked under SpecPair)
\* ------------------------------------------------------------------------

\* The step leaves invocation j alone: its locals, and the abort signal it
\* holds
Untouched(j) ==
  /\ calls'[j] = calls[j]
  /\ calls[j].ac # 0 => signals'[calls[j].ac] = signals[calls[j].ac]

\* What the invocation with locals c did follows from its own request, its
\* own upstream outcomes and its own timer
OwnOutcome(c) ==
  /\ c.attempts = Len(c.errs) + (IF c.pc \in {"fetch", "readText", "readJson"}
                                    \/ c.outcome = "returned" THEN 1 ELSE 0)
  /\ \A n \in 1..Len(c.errs) : c.errs[n].name = "AbortError" => c.timer = "fired"
  /\ \A n \in 1..Len(c.waits) : c.waits[n] = 400 * 2^(n - 1)
  /\ c.pc = "done" =>
       /\ c.sent = 1
       /\ StatedEarlyStatus(c.req) # 0 =>
            c.res.status = StatedEarlyStatus(c.req) /\ c.attempts = 0
       /\ c.outcome = "returned" =>
            c.res = RespondToData(c.payload, c.req.word.s)
       /\ c.outcome = "threw" => c.res = RespondToError(c.errs[Len(c.errs)])

\* C15: two invocations in flight at once are independent: under every
\* interleaving, a step of one (its timer firing, a retry, a failure) leaves
\* the other's locals, abort signal, attempt count, waits and response as
\* they were, and what each did follows from its own request, upstream
\* outcomes and timer.
C15_InvocationsIndependent ==
  /\ [](\A k \in Invocations : OwnOutcome(calls[k]))
  /\ [][\E k \in Invocations : \A j \in Invocations \ {k} : Untouched(j)]_vars

\* C15 witness: both invocations are in flight, the timer of the first has
\* fired and aborted its signal while the second, not aborted, is reading
\* the body of its second attempt's response.
C15_Witness ==
  /\ calls[1].pc = "fetch"
  /\ calls[1].timer = "fired"
  /\ signals[calls[1].ac]
  /\ calls[2].pc = "readJson"
  /\ calls[2].attempts = 2
  /\ ~signals[calls[2].ac]

\* ------------------------------------------------------------------------
\* Claims about the handler's answer (checked under SpecLive)
\* ------------------------------------------------------------------------

\* C16: every invocation sends exactly one HTTP response and eventually does
\* so, given that every upstream await settles or is aborted: no sequence of
\* upstream outcomes and timer firings leaves a received request unanswered
\* or answers it twice, and the status sent is one of 200, 400, 405, 500,
\* 502, 504.
C16_ExactlyOneResponse ==
  /\ [](sent <= 1)
  /\ [](pc = "done" =>
         sent = 1 /\ res.status \in {200, 400, 405, 500, 502, 504})
  /\ [](pc # "done" => sent = 0)
  /\ (req.method # "" ~> (pc = "done" /\ sent = 1))

\* C16 witness: an invocation whose timer fired in its third attempt has been
\* answered, once, with 504.
C16_Witness ==
  /\ pc = "done"
  /\ sent = 1
  /\ attempts = 3
  /\ timer = "fired"
  /\ res.status = 504

\* ------------------------------------------------------------------------
\* Claims about the timeout timer (checked under Spec)
\* ------------------------------------------------------------------------

\* C18: on every exit path of the handler that armed the timeout timer
\* (success, 502, 504, 500 after a failed upstream call) the timer has been
\* cleared by the time the response is sent: once an invocation that armed
\* the timer is finished, its timer is neither pending nor does it fire.
C18_TimerClearedOnExit ==
  /\ (pc = "done" /\ armed > 0) => timer # "armed"
  /\ firedAt.pc # "done"

====
